---------------------------- MODULE Spec2Model ----------------------------
(***************************************************************************)
(* A model of udon.layout: rasterization of a phidl device hierarchy with *)
(* embedded RasterDevice leaves, and derasterization of a raster function. *)
(*                                                                         *)
(* Real numbers are modelled exactly, as rationals <<n, d>> in lowest      *)
(* terms with d > 0.  A Euclidean norm is carried as its square.  Angles   *)
(* are whole degrees whose cosine and sine are rational.                   *)
(***************************************************************************)
EXTENDS Integers, Sequences, FiniteSets, TLC

VARIABLES
  gx0, gx1, gres, grid, gpc,      \* _gridpoints: arguments, result, position
  tt, tp, tq, tr, td, tpc,        \* _spatial_transform: transform, point, images
  bfn, bbox, bx, by, bval, bpc,   \* bounded_raster: arguments, result, position
  spoly, spt, sres, spc,          \* polygon_sdf: polygon, point, result, position
  cells, refs, prevh, nadds, out, \* the device hierarchy and the last call's result
  dfn, dbox, dres, dxgrid, dygrid, drvals, dcontours, dpolys, dout, dpc
                                  \* deraster: arguments, locals, position

gridVars == <<gx0, gx1, gres, grid, gpc>>
txVars == <<tt, tp, tq, tr, td, tpc>>
bndVars == <<bfn, bbox, bx, by, bval, bpc>>
sdfVars == <<spoly, spt, sres, spc>>
treeVars == <<cells, refs, prevh, nadds, out>>
derVars ==
  <<dfn, dbox, dres, dxgrid, dygrid, drvals, dcontours, dpolys, dout, dpc>>
vars == <<gridVars, txVars, bndVars, sdfVars, treeVars, derVars>>

\* A part of the model that a specification does not exercise stays idle.
GridIdle ==
  /\ gx0 = "idle" /\ gx1 = "idle" /\ gres = "idle" /\ grid = "idle"
  /\ gpc = "idle"
TxIdle ==
  /\ tt = "idle" /\ tp = "idle" /\ tq = "idle" /\ tr = "idle" /\ td = "idle"
  /\ tpc = "idle"
BndIdle ==
  /\ bfn = "idle" /\ bbox = "idle" /\ bx = "idle" /\ by = "idle"
  /\ bval = "idle" /\ bpc = "idle"
SdfIdle ==
  /\ spoly = "idle" /\ spt = "idle" /\ sres = "idle" /\ spc = "idle"
TreeIdle ==
  /\ cells = "idle" /\ refs = "idle" /\ prevh = "idle" /\ nadds = "idle"
  /\ out = "idle"
DerIdle ==
  /\ dfn = "idle" /\ dbox = "idle" /\ dres = "idle" /\ dxgrid = "idle"
  /\ dygrid = "idle" /\ drvals = "idle" /\ dcontours = "idle"
  /\ dpolys = "idle" /\ dout = "idle" /\ dpc = "idle"

\* What each part of the model leaves alone.
notGrid == <<txVars, bndVars, sdfVars, treeVars, derVars>>
notTx == <<gridVars, bndVars, sdfVars, treeVars, derVars>>
notBnd == <<gridVars, txVars, sdfVars, treeVars, derVars>>
notSdf == <<gridVars, txVars, bndVars, treeVars, derVars>>
notTree == <<gridVars, txVars, bndVars, sdfVars, derVars>>
notDer == <<gridVars, txVars, bndVars, sdfVars, treeVars>>

-----------------------------------------------------------------------------
(* Exact rational arithmetic. *)

Abs(n) == IF n < 0 THEN -n ELSE n

RECURSIVE GCD(_, _)
GCD(a, b) == IF b = 0 THEN a ELSE GCD(b, a % b)

Norm(n, d) ==
  LET g == GCD(Abs(n), Abs(d))
      s == IF d < 0 THEN -1 ELSE 1
  IN  <<(s * n) \div g, (s * d) \div g>>

R(n) == <<n, 1>>
Q(n, d) == Norm(n, d)
RAdd(a, b) == Norm(a[1] * b[2] + b[1] * a[2], a[2] * b[2])
RNeg(a) == <<-a[1], a[2]>>
RSub(a, b) == RAdd(a, RNeg(b))
RMul(a, b) == Norm(a[1] * b[1], a[2] * b[2])
RDiv(a, b) == Norm(a[1] * b[2], a[2] * b[1])
RLt(a, b) == a[1] * b[2] < b[1] * a[2]
RLe(a, b) == a[1] * b[2] <= b[1] * a[2]
RMin(a, b) == IF RLe(a, b) THEN a ELSE b
RMax(a, b) == IF RLe(a, b) THEN b ELSE a
RFloor(a) == a[1] \div a[2]
RClip(a, lo, hi) == RMin(RMax(a, lo), hi)

Zero == R(0)
One == R(1)

-----------------------------------------------------------------------------
(* derasterization.py: the sampling grid. *)

GridMaxLen == 5
GridMaxRes == 4

\* -int(-x // y): Python's floor division, negated twice.
CeilDiv(x, y) == -RFloor(RDiv(RNeg(x), y))

\* numpy.linspace(a, b, num, endpoint=True): num points, the first a, the
\* step (b - a) / (num - 1); a single point is a alone.
Linspace(a, b, num) ==
  IF num <= 0 THEN <<>>
  ELSE IF num = 1 THEN <<a>>
  ELSE [i \in 1..num |->
          RAdd(a, RMul(R(i - 1), RDiv(RSub(b, a), R(num - 1))))]

Gridpoints(x0, x1, resolution) ==
  LET length == RSub(x1, x0)
      n == CeilDiv(length, resolution)
      dx == RDiv(length, R(n))
  IN  <<RSub(x0, dx)>> \o Linspace(x0, x1, n) \o <<RAdd(x1, dx)>>

GridInit ==
  /\ gx0 \in {R(-1), R(0), R(1)}
  /\ \E len \in 1..GridMaxLen : gx1 = RAdd(gx0, R(len))
  /\ \E k \in 1..GridMaxRes : gres = Q(k, 2)
  /\ grid = <<>>
  /\ gpc = "call"
  /\ TxIdle /\ BndIdle /\ SdfIdle /\ TreeIdle /\ DerIdle

GridCall ==
  /\ gpc = "call"
  /\ grid' = Gridpoints(gx0, gx1, gres)
  /\ gpc' = "done"
  /\ UNCHANGED <<gx0, gx1, gres>>
  /\ UNCHANGED notGrid


\* The grid the documentation describes: x0 - dx, x0, x0 + dx, ..., x1, x1 + dx.
ExpectedGrid(x0, x1, resolution) ==
  LET length == RSub(x1, x0)
      n == CeilDiv(length, resolution)
      dx == RDiv(length, R(n))
  IN  [i \in 1..(n + 3) |-> RAdd(x0, RMul(R(i - 2), dx))]

\* C2: _gridpoints(x0, x1, resolution) returns exactly the n + 3 points
\* x0 - dx, x0, x0 + dx, ..., x1, x1 + dx with n = ceil((x1 - x0) / resolution)
\* and dx = (x1 - x0) / n: spacing dx <= resolution, both endpoints on the
\* grid, one guard point beyond each.
C2_GridCoverage ==
  gpc = "done" => grid = ExpectedGrid(gx0, gx1, gres)


-----------------------------------------------------------------------------
(* rasterization.py: the transform of query points through one reference. *)

\* The rotations of the model, in degrees.  37 stands for atan(3/4)
\* (36.87 degrees), the angle whose cosine 4/5 and sine 3/5 are rational.
RotAngles == {0, 90, 180, 270, 37}

Cos(deg) ==
  CASE deg \in {0} -> One
    [] deg \in {90, -90, 270, -270} -> Zero
    [] deg \in {180, -180} -> R(-1)
    [] deg \in {37, -37} -> Q(4, 5)

Sin(deg) ==
  CASE deg \in {0, 180, -180} -> Zero
    [] deg \in {90, -270} -> One
    [] deg \in {-90, 270} -> R(-1)
    [] deg = 37 -> Q(3, 5)
    [] deg = -37 -> Q(-3, 5)

\* magnification is <<>> for None and <<m>> for the number m.
NoMag == <<>>
Origins == {<<Zero, Zero>>, <<One, Zero>>, <<R(-1), R(2)>>}
Mags == {NoMag, <<R(2)>>, <<Q(1, 2)>>}
Coords == {R(-1), Zero, Q(3, 2)}

ReferenceTransform(origin, rotation, x_reflection, magnification) ==
  [origin |-> origin, rotation |-> rotation,
   x_reflection |-> x_reflection, magnification |-> magnification]

Transforms ==
  {ReferenceTransform(o, a, f, m) :
     o \in Origins, a \in RotAngles, f \in BOOLEAN, m \in Mags}

IdentityTransform == ReferenceTransform(<<Zero, Zero>>, 0, FALSE, NoMag)

\* A bug the round trip must catch: rotating by +rotation.
SpatialTransformSameSense(transform, x, y) ==
  LET x1 == RSub(x, transform.origin[1])
      y1 == RSub(y, transform.origin[2])
      theta == transform.rotation
      x2 == RSub(RMul(x1, Cos(theta)), RMul(y1, Sin(theta)))
      y2 == RAdd(RMul(y1, Cos(theta)), RMul(x1, Sin(theta)))
      x3 == IF transform.magnification # NoMag
            THEN RDiv(x2, transform.magnification[1]) ELSE x2
      y3 == IF transform.magnification # NoMag
            THEN RDiv(y2, transform.magnification[1]) ELSE y2
      y4 == IF transform.x_reflection THEN RNeg(y3) ELSE y3
  IN  <<x3, y4>>

SpatialTransform(transform, x, y) ==
  LET x1 == RSub(x, transform.origin[1])
      y1 == RSub(y, transform.origin[2])
      theta == -transform.rotation
      x2 == RSub(RMul(x1, Cos(theta)), RMul(y1, Sin(theta)))
      y2 == RAdd(RMul(y1, Cos(theta)), RMul(x1, Sin(theta)))
      x3 == IF transform.magnification # NoMag
            THEN RDiv(x2, transform.magnification[1]) ELSE x2
      y3 == IF transform.magnification # NoMag
            THEN RDiv(y2, transform.magnification[1]) ELSE y2
      y4 == IF transform.x_reflection THEN RNeg(y3) ELSE y3
  IN  <<x3, y4>>

\* The transform a reference applies to its cell's own points (gdspy's
\* CellReference._transform_polygons): reflect, magnify, rotate, translate.
ForwardTransform(transform, x, y) ==
  LET y1 == IF transform.x_reflection THEN RNeg(y) ELSE y
      x2 == IF transform.magnification # NoMag
            THEN RMul(x, transform.magnification[1]) ELSE x
      y2 == IF transform.magnification # NoMag
            THEN RMul(y1, transform.magnification[1]) ELSE y1
      theta == transform.rotation
      x3 == RSub(RMul(x2, Cos(theta)), RMul(y2, Sin(theta)))
      y3 == RAdd(RMul(y2, Cos(theta)), RMul(x2, Sin(theta)))
  IN  <<RAdd(x3, transform.origin[1]), RAdd(y3, transform.origin[2])>>

TxInit ==
  /\ tt \in Transforms
  /\ tp \in Coords \X Coords
  /\ tq = <<>> /\ tr = <<>> /\ td = <<>>
  /\ tpc = "start"
  /\ GridIdle /\ BndIdle /\ SdfIdle /\ TreeIdle /\ DerIdle

\* A point of the child cell is instantiated through the reference.
TxForward ==
  /\ tpc = "start"
  /\ tq' = ForwardTransform(tt, tp[1], tp[2])
  /\ tpc' = "forwarded"
  /\ UNCHANGED <<tt, tp, tr, td>>
  /\ UNCHANGED notTx

\* The instantiated point is pulled back as a query point.
TxPull ==
  /\ tpc = "forwarded"
  /\ tr' = SpatialTransform(tt, tq[1], tq[2])
  /\ tpc' = "pulled"
  /\ UNCHANGED <<tt, tp, tq, td>>
  /\ UNCHANGED notTx

\* The point itself is taken as a query point.
TxDirect ==
  /\ tpc = "start"
  /\ td' = SpatialTransform(tt, tp[1], tp[2])
  /\ tpc' = "direct"
  /\ UNCHANGED <<tt, tp, tq, tr>>
  /\ UNCHANGED notTx

TxNext == TxForward \/ TxPull \/ TxDirect

\* C3: _spatial_transform undoes the forward transform of a reference
\* (forward, then _spatial_transform, returns the point), and the transform
\* with rotation 0, no reflection, no magnification and origin (0, 0) is the
\* identity on query points.
C3_RoundTrip ==
  /\ tpc = "pulled" => tr = tp
  /\ (tpc = "direct" /\ tt = IdentityTransform) => td = tp

C3_Witness ==
  /\ tpc = "pulled"
  /\ tt.rotation = 37 /\ tt.x_reflection /\ tt.magnification = <<R(2)>>
  /\ tt.origin = <<R(-1), R(2)>>
  /\ tp = <<Q(3, 2), R(-1)>>
  /\ tq # tp
  /\ tr = tp

-----------------------------------------------------------------------------
(* _device.py: a raster function clipped to its bounding box. *)

BMaxHalf == 5

\* The raster functions of the model: the fields scale * (a*x + b*y + offset),
\* the shape of the test's 0.5 * (sin(5 * (x + y)) + offset) with the sine
\* replaced by a linear form.  offset is the parameter a caller optimises.
RasterFns ==
  { [scale |-> Q(1, 2), a |-> One, b |-> One, offset |-> One],
    [scale |-> One, a |-> Zero, b |-> Zero, offset |-> R(2)],
    [scale |-> One, a |-> One, b |-> R(-1), offset |-> Q(-1, 2)] }

RasterFn(fn, x, y) ==
  RMul(fn.scale, RAdd(RAdd(RMul(fn.a, x), RMul(fn.b, y)), fn.offset))

\* bbox is <<<<x0, y0>>, <<x1, y1>>>>; Python's bbox[i][j] is bbox[i+1][j+1].
BBoxes ==
  { <<<<Zero, Zero>>, <<R(2), One>>>>,
    <<<<R(-1), Zero>>, <<One, R(2)>>>> }

\* A bug the clip must catch: a box open at its upper edges.
BoundedRasterOpenBox(rasterfn, x, y, box) ==
  LET in_bbox == /\ RLe(box[1][1], x) /\ RLt(x, box[2][1])
                 /\ RLe(box[1][2], y) /\ RLt(y, box[2][2])
  IN  IF in_bbox THEN RClip(RasterFn(rasterfn, x, y), Zero, One) ELSE Zero

BoundedRaster(rasterfn, x, y, box) ==
  LET in_bbox == /\ RLe(box[1][1], x) /\ RLe(x, box[2][1])
                 /\ RLe(box[1][2], y) /\ RLe(y, box[2][2])
  IN  IF in_bbox THEN RClip(RasterFn(rasterfn, x, y), Zero, One) ELSE Zero

BCoords == {Q(k, 2) : k \in -2..BMaxHalf}

BndInit ==
  /\ bfn \in RasterFns
  /\ bbox \in BBoxes
  /\ bx \in BCoords
  /\ by \in BCoords
  /\ bval = <<>>
  /\ bpc = "call"
  /\ GridIdle /\ TxIdle /\ SdfIdle /\ TreeIdle /\ DerIdle

BndCall ==
  /\ bpc = "call"
  /\ bval' = BoundedRaster(bfn, bx, by, bbox)
  /\ bpc' = "done"
  /\ UNCHANGED <<bfn, bbox, bx, by>>
  /\ UNCHANGED notBnd

BndNext == BndCall

BInside ==
  /\ ~RLt(bx, bbox[1][1]) /\ ~RLt(bbox[2][1], bx)
  /\ ~RLt(by, bbox[1][2]) /\ ~RLt(bbox[2][2], by)

BRaw == RasterFn(bfn, bx, by)

\* C4: bounded_raster returns exactly 0 outside the bounding box whatever the
\* raw field value, and the raw value clamped to [0, 1] inside it, the box
\* boundary counting as inside; the result is always in [0, 1].
C4_BoundedClamp ==
  bpc = "done" =>
    /\ ~BInside => bval = Zero
    /\ BInside =>
         bval = (IF RLt(BRaw, Zero) THEN Zero
                 ELSE IF RLt(One, BRaw) THEN One ELSE BRaw)
    /\ RLe(Zero, bval) /\ RLe(bval, One)

\* A point on the upper edge of the box where the raw field exceeds 1.
C4_Witness ==
  /\ bpc = "done"
  /\ bx = bbox[2][1] /\ BInside
  /\ RLt(One, BRaw)
  /\ bval = One

-----------------------------------------------------------------------------
(* polygon_signed_distance.py.  A point or vertex is <<x, y>>; a polygon is *)
(* the sequence of its vertices, the closing edge implied.  The result is   *)
(* [sign, distsq]: the signed distance is sign * sqrt(distsq).              *)

SdfGrid == 2

VSub(u, v) == <<RSub(u[1], v[1]), RSub(u[2], v[2])>>
VDot(u, v) == RAdd(RMul(u[1], v[1]), RMul(u[2], v[2]))
VScale(u, k) == <<RMul(u[1], k), RMul(u[2], k)>>
NormSq(u) == VDot(u, u)

\* polygon[i-1] of a numpy array: index -1 is the last row.
PrevIndex(polygon, i) == IF i = 1 THEN Len(polygon) ELSE i - 1

\* The sign update of one loop iteration.
SdfSign(polygon, point, i, sign) ==
  LET edge == VSub(polygon[PrevIndex(polygon, i)], polygon[i])
      vect == VSub(point, polygon[i])
      w1 == RLe(polygon[i][2], point[2])
      w2 == RLt(point[2], polygon[PrevIndex(polygon, i)][2])
      w3 == RLt(RMul(edge[2], vect[1]), RMul(edge[1], vect[2]))
  IN  IF (w1 /\ w2 /\ w3) \/ (~w1 /\ ~w2 /\ ~w3) THEN -sign ELSE sign

\* The distance update of one loop iteration.
SdfDist(polygon, point, i, dist) ==
  LET edge == VSub(polygon[PrevIndex(polygon, i)], polygon[i])
      vect == VSub(point, polygon[i])
      ratio == RClip(RDiv(VDot(vect, edge), VDot(edge, edge)), Zero, One)
      foot == VSub(vect, VScale(edge, ratio))
  IN  RMin(dist, NormSq(foot))

RECURSIVE SdfLoop(_, _, _, _, _)
SdfLoop(polygon, point, i, sign, dist) ==
  IF i > Len(polygon) THEN [sign |-> sign, distsq |-> dist]
  ELSE SdfLoop(polygon, point, i + 1,
               SdfSign(polygon, point, i, sign),
               SdfDist(polygon, point, i, dist))

\* A bug the sign claim must catch: the closing edge left out of the loop.
PolygonSdfOpen(polygon, point) ==
  SdfLoop(polygon, point, 2, 1, NormSq(VSub(polygon[1], point)))

PolygonSdf(polygon, point) ==
  SdfLoop(polygon, point, 1, 1, NormSq(VSub(polygon[1], point)))

SdfVertices == {<<R(i), R(j)>> : i \in 0..SdfGrid, j \in 0..SdfGrid}

Cross(o, u, v) ==
  RSub(RMul(RSub(u[1], o[1]), RSub(v[2], o[2])),
       RMul(RSub(u[2], o[2]), RSub(v[1], o[1])))

TestTriangle == <<<<Zero, Zero>>, <<One, One>>, <<R(2), Zero>>>>

\* A square, a concave dart and a concave pentagon.
OtherPolygons ==
  { <<<<Zero, Zero>>, <<R(2), Zero>>, <<R(2), R(2)>>, <<Zero, R(2)>>>>,
    <<<<Zero, Zero>>, <<R(2), One>>, <<Zero, R(2)>>, <<One, One>>>>,
    <<<<Zero, Zero>>, <<R(2), Zero>>, <<R(2), R(2)>>, <<One, One>>,
      <<Zero, R(2)>>>> }

SdfPoints ==
  { <<R(-1), Zero>>, <<One, Q(1, 5)>>, <<One, R(2)>>, <<Q(1, 2), Q(1, 3)>>,
    <<Q(3, 2), Q(5, 4)>>, <<Q(1, 3), Q(3, 2)>>, <<Q(5, 2), Q(1, 2)>>,
    <<Q(1, 4), R(3)>> }

SdfInit ==
  /\ spoly \in
       {<<u, v, w>> : u \in SdfVertices, v \in SdfVertices, w \in SdfVertices}
       \cup OtherPolygons
  /\ Len(spoly) = 3 => Cross(spoly[1], spoly[2], spoly[3]) # Zero
  /\ spt \in SdfPoints
  /\ sres = <<>>
  /\ spc = "call"
  /\ GridIdle /\ TxIdle /\ BndIdle /\ TreeIdle /\ DerIdle

SdfCall ==
  /\ spc = "call"
  /\ sres' = PolygonSdf(spoly, spt)
  /\ spc' = "done"
  /\ UNCHANGED <<spoly, spt>>
  /\ UNCHANGED notSdf

SdfNext == SdfCall

\* The squared distance from p to the segment from a to b.
SegDistSq(p, a, b) ==
  IF RLe(VDot(VSub(p, a), VSub(b, a)), Zero) THEN NormSq(VSub(p, a))
  ELSE IF RLe(VDot(VSub(p, b), VSub(a, b)), Zero) THEN NormSq(VSub(p, b))
  ELSE RDiv(RMul(Cross(a, b, p), Cross(a, b, p)), NormSq(VSub(b, a)))

EdgeIndices(polygon) == 1..Len(polygon)

MinEdgeDistSq(polygon, p) ==
  CHOOSE d \in {SegDistSq(p, polygon[PrevIndex(polygon, i)], polygon[i]) :
                  i \in EdgeIndices(polygon)} :
    \A i \in EdgeIndices(polygon) :
      RLe(d, SegDistSq(p, polygon[PrevIndex(polygon, i)], polygon[i]))

\* The edge from a to b crosses the horizontal ray from p towards +x.
CrossesRay(p, a, b) ==
  /\ RLt(p[2], a[2]) # RLt(p[2], b[2])
  /\ RLt(p[1],
         RAdd(a[1], RDiv(RMul(RSub(p[2], a[2]), RSub(b[1], a[1])),
                         RSub(b[2], a[2]))))

InsideEvenOdd(polygon, p) ==
  Cardinality({i \in EdgeIndices(polygon) :
                 CrossesRay(p, polygon[PrevIndex(polygon, i)], polygon[i])})
    % 2 = 1

\* C5: off the boundary polygon_sdf is negative exactly inside the polygon
\* (even-odd rule) and positive outside, its magnitude the least distance to
\* an edge segment; for the triangle (0,0),(1,1),(2,0) it is 1 at (-1,0),
\* -0.2 at (1,0.2) and 1 at (1,2).
C5_SignedDistance ==
  spc = "done" =>
    /\ MinEdgeDistSq(spoly, spt) # Zero =>
         /\ sres.sign = -1 <=> InsideEvenOdd(spoly, spt)
         /\ sres.sign = 1 <=> ~InsideEvenOdd(spoly, spt)
         /\ sres.distsq = MinEdgeDistSq(spoly, spt)
    /\ spoly = TestTriangle =>
         /\ spt = <<R(-1), Zero>> => sres = [sign |-> 1, distsq |-> One]
         /\ spt = <<One, Q(1, 5)>> => sres = [sign |-> -1, distsq |-> Q(1, 25)]
         /\ spt = <<One, R(2)>> => sres = [sign |-> 1, distsq |-> One]

\* The test's interior point: distance -0.2 to the triangle.
C5_Witness ==
  /\ spc = "done"
  /\ spoly = TestTriangle
  /\ spt = <<One, Q(1, 5)>>
  /\ InsideEvenOdd(spoly, spt)
  /\ sres = [sign |-> -1, distsq |-> Q(1, 25)]

-----------------------------------------------------------------------------
(* device_parse.py and rasterization.py over a device hierarchy.           *)
(*                                                                         *)
(* The heap h = [cells, refs] holds the cell objects and the reference     *)
(* objects; a cell's references is the list of its reference objects, a    *)
(* reference's parent and ref_cell name the cell it instantiates.          *)

MaxAdds == 2
\* The interpreter's recursion limit, in frames of one traversal.
RecursionLimit == 5

LayerA == <<0, 0>>
LayerB == <<0, 1>>
LayerSpecs == {LayerA, LayerB}

\* Cells 1 and 2 are plain phidl Devices, cell 3 is a RasterDevice; the
\* device handed to the traversals is cell 1.
Root == 1
PlainCells == {1, 2}
AllCells == {1, 2, 3}

Device(id) ==
  [kind |-> "Device", name |-> <<id, 0>>, references |-> <<>>,
   polygons |-> <<>>]

RasterDevice(id, spec, rasterfn, box) ==
  [kind |-> "RasterDevice", name |-> <<id, 0>>, references |-> <<>>,
   polygons |-> <<>>, spec |-> spec, rasterfn |-> rasterfn, bbox |-> box]

TheRasterFn == [scale |-> Q(1, 2), a |-> One, b |-> One, offset |-> One]
TheBBox == <<<<Zero, Zero>>, <<R(2), One>>>>

\* The transforms references carry in this part of the model.
TxTurn == ReferenceTransform(<<One, Zero>>, 90, FALSE, NoMag)
TxFlip == ReferenceTransform(<<Zero, One>>, 0, TRUE, <<R(2)>>)
TreeTransforms == {TxTurn, TxFlip}

Reference(cell, t) ==
  [parent |-> cell, ref_cell |-> cell, origin |-> t.origin,
   rotation |-> t.rotation, x_reflection |-> t.x_reflection,
   magnification |-> t.magnification]

Polygon(spec, points) == [spec |-> spec, points |-> points]

EmptyScene ==
  [cells |-> <<Device(1), Device(2),
               RasterDevice(3, LayerA, TheRasterFn, TheBBox)>>,
   refs |-> <<>>]

\* The shape of the test's circuit: the root instantiates a waveguide cell,
\* which holds a polygon and instantiates the RasterDevice, which holds its
\* derastered polygon.
TestScene ==
  [cells |->
     <<[Device(1) EXCEPT !.references = <<1>>],
       [Device(2) EXCEPT !.references = <<2>>,
                         !.polygons = <<Polygon(LayerA, TestTriangle)>>],
       [RasterDevice(3, LayerA, TheRasterFn, TheBBox)
          EXCEPT !.polygons = <<Polygon(LayerA, TestTriangle)>>]>>,
   refs |-> <<Reference(2, TxTurn), Reference(3, TxFlip)>>]

Ok(v) == [err |-> "none", val |-> v]
RecursionError == [err |-> "RecursionError", val |-> <<>>]

Reftx(ref) ==
  ReferenceTransform(ref.origin, ref.rotation, ref.x_reflection,
                     ref.magnification)

RECURSIVE ExtractRaster(_, _, _)
RECURSIVE ExtractRefs(_, _, _, _, _)

\* A bug termination must catch: the loop recursing on device itself.
ExtractRefsSameDevice(h, device, i, z, depth) ==
  IF i > Len(h.cells[device].references) THEN Ok(z)
  ELSE LET ref == h.refs[h.cells[device].references[i]]
           sub == ExtractRaster(h, device, depth + 1)
       IN  IF sub.err # "none" THEN sub
           ELSE ExtractRefs(h, device, i + 1,
                  z \o [j \in 1..Len(sub.val) |->
                          [dev |-> sub.val[j].dev,
                           txs |-> sub.val[j].txs \o <<Reftx(ref)>>]],
                  depth)

\* The loop of extract_raster from its i-th reference on, z the list so far.
ExtractRefs(h, device, i, z, depth) ==
  IF i > Len(h.cells[device].references) THEN Ok(z)
  ELSE LET ref == h.refs[h.cells[device].references[i]]
           sub == ExtractRaster(h, ref.parent, depth + 1)
       IN  IF sub.err # "none" THEN sub
           ELSE ExtractRefs(h, device, i + 1,
                  z \o [j \in 1..Len(sub.val) |->
                          [dev |-> sub.val[j].dev,
                           txs |-> sub.val[j].txs \o <<Reftx(ref)>>]],
                  depth)

ExtractRaster(h, device, depth) ==
  IF depth > RecursionLimit THEN RecursionError
  ELSE IF h.cells[device].kind = "RasterDevice"
       THEN Ok(<<[dev |-> device, txs |-> <<>>]>>)
       ELSE ExtractRefs(h, device, 1, <<>>, depth)

\* Cell.copy(name, deep_copy=True) of the layout library: a new plain cell
\* with copies of the polygons and a new reference object for each reference,
\* instantiating the same cell as the original reference.
Copy(h, device, name) ==
  LET old == h.cells[device].references
      n == Len(h.refs)
      d == Len(h.cells) + 1
  IN  [h |-> [cells |-> Append(h.cells,
                          [kind |-> "Device", name |-> name,
                           references |-> [j \in 1..Len(old) |-> n + j],
                           polygons |-> h.cells[device].polygons]),
              refs |-> h.refs \o [j \in 1..Len(old) |-> h.refs[old[j]]]],
       d |-> d]

FrCopyName(name) == <<name[1], name[2] + 1>>

IsRasterDevice(h, cell) == h.cells[cell].kind = "RasterDevice"

RECURSIVE FilterRaster(_, _, _)
RECURSIVE FilterRefs(_, _, _, _)

\* The loop of filter_raster from the i-th reference of the copy d on.
FilterRefs(h, d, i, depth) ==
  IF i > Len(h.cells[d].references) THEN [err |-> "none", h |-> h, d |-> d]
  ELSE LET r == h.cells[d].references[i]
           f == FilterRaster(h, h.refs[r].parent, depth + 1)
       IN  IF f.err # "none" THEN f
           ELSE FilterRefs(
                  [f.h EXCEPT !.refs[r].parent = f.d, !.refs[r].ref_cell = f.d],
                  d, i + 1, depth)

\* A bug the copy claim must catch: filtering the device itself in place.
FilterRasterInPlace(h, device, depth) ==
  IF depth > RecursionLimit THEN [err |-> "RecursionError", h |-> h, d |-> 0]
  ELSE LET kept == SelectSeq(h.cells[device].references,
                             LAMBDA r : ~IsRasterDevice(h, h.refs[r].parent))
       IN  FilterRefs([h EXCEPT !.cells[device].references = kept],
                      device, 1, depth)

FilterRaster(h, device, depth) ==
  IF depth > RecursionLimit THEN [err |-> "RecursionError", h |-> h, d |-> 0]
  ELSE LET c == Copy(h, device, FrCopyName(h.cells[device].name))
           kept == SelectSeq(c.h.cells[c.d].references,
                             LAMBDA r : ~IsRasterDevice(c.h, c.h.refs[r].parent))
       IN  FilterRefs([c.h EXCEPT !.cells[c.d].references = kept],
                      c.d, 1, depth)

\* The polygon p as a reference with transform t instantiates it.
TransformPolygon(t, p) ==
  [j \in 1..Len(p) |-> ForwardTransform(t, p[j][1], p[j][2])]

RECURSIVE GetPolygons(_, _, _, _)
RECURSIVE GetRefPolygons(_, _, _, _, _, _)

\* The polygons the references of device contribute, from the i-th one on.
GetRefPolygons(h, device, spec, i, z, depth) ==
  IF i > Len(h.cells[device].references) THEN Ok(z)
  ELSE LET ref == h.refs[h.cells[device].references[i]]
           sub == GetPolygons(h, ref.ref_cell, spec, depth + 1)
       IN  IF sub.err # "none" THEN sub
           ELSE GetRefPolygons(h, device, spec, i + 1,
                  z \o [j \in 1..Len(sub.val) |->
                          TransformPolygon(Reftx(ref), sub.val[j])],
                  depth)

\* device.get_polygons(by_spec=spec) of the layout library: the polygons of
\* the cell tagged spec, then those of every referenced cell, transformed.
GetPolygons(h, device, spec, depth) ==
  IF depth > RecursionLimit THEN RecursionError
  ELSE LET own == SelectSeq(h.cells[device].polygons,
                            LAMBDA p : p.spec = spec)
       IN  GetRefPolygons(h, device, spec, 1,
                          [j \in 1..Len(own) |-> own[j].points], depth)

RECURSIVE MaxOf(_)
MaxOf(z) ==
  IF Len(z) = 1 THEN z[1] ELSE RMax(z[1], MaxOf(Tail(z)))

\* polygon_sdf(p, x, y) <= 0.0
SdfNonPositive(p, x, y) ==
  LET sd == PolygonSdf(p, <<x, y>>)
  IN  sd.sign = -1 \/ sd.distsq = Zero

\* A bug the empty case must catch: no branch for an empty polygon list,
\* so that stacking nothing fails.
PolygonRasterNoEmptyCase(h, device, spec, x, y) ==
  LET polygons == GetPolygons(h, device, spec, 1)
  IN  IF polygons.err # "none" THEN polygons
      ELSE IF polygons.val # <<>>
           THEN Ok(IF \E j \in 1..Len(polygons.val) :
                        SdfNonPositive(polygons.val[j], x, y)
                   THEN One ELSE Zero)
           ELSE [err |-> "ValueError", val |-> <<>>]

PolygonRaster(h, device, spec, x, y) ==
  LET polygons == GetPolygons(h, device, spec, 1)
  IN  IF polygons.err # "none" THEN polygons
      ELSE IF polygons.val # <<>>
           THEN Ok(IF \E j \in 1..Len(polygons.val) :
                        SdfNonPositive(polygons.val[j], x, y)
                   THEN One ELSE Zero)
           ELSE Ok(Zero)

\* RasterDevice.raster
RasterDeviceRaster(rdevice, x, y) ==
  BoundedRaster(rdevice.rasterfn, x, y, rdevice.bbox)

RECURSIVE ApplyTransforms(_, _, _)
\* The loop of _transformed_raster over the transforms from the i-th on.
ApplyTransforms(transforms, i, pt) ==
  IF i > Len(transforms) THEN pt
  ELSE ApplyTransforms(transforms, i + 1,
                       SpatialTransform(transforms[i], pt[1], pt[2]))

TransformedRaster(rdevice, transforms, x, y) ==
  LET pt == ApplyTransforms(transforms, 1, <<x, y>>)
  IN  RasterDeviceRaster(rdevice, pt[1], pt[2])

\* A bug monotonicity must catch: the last matching RasterDevice taken
\* instead of the maximum over all of them.
DeviceRasterLast(h, device, spec, x, y) ==
  LET ex == ExtractRaster(h, device, 1)
  IN  IF ex.err # "none" THEN ex
      ELSE LET sel == SelectSeq(ex.val,
                                LAMBDA e : spec = h.cells[e.dev].spec)
               rvals == [j \in 1..Len(sel) |->
                           TransformedRaster(h.cells[sel[j].dev],
                                             sel[j].txs, x, y)]
           IN  IF rvals # <<>> THEN Ok(rvals[Len(rvals)]) ELSE Ok(Zero)

DeviceRaster(h, device, spec, x, y) ==
  LET ex == ExtractRaster(h, device, 1)
  IN  IF ex.err # "none" THEN ex
      ELSE LET sel == SelectSeq(ex.val,
                                LAMBDA e : spec = h.cells[e.dev].spec)
               rvals == [j \in 1..Len(sel) |->
                           TransformedRaster(h.cells[sel[j].dev],
                                             sel[j].txs, x, y)]
           IN  IF rvals # <<>> THEN Ok(MaxOf(rvals)) ELSE Ok(Zero)

\* raster(device, spec, x, y) at one point: the error raised, the heap left
\* behind, the two contributions and the value returned.
Raster(h, device, spec, x, y) ==
  LET f == FilterRaster(h, device, 1)
      failed(e) == [err |-> e, h |-> h, poly_rvals |-> Zero,
                    rdev_rvals |-> Zero, val |-> Zero]
  IN  IF f.err # "none" THEN failed(f.err)
      ELSE LET poly_rvals == PolygonRaster(f.h, f.d, spec, x, y)
               rdev_rvals == DeviceRaster(f.h, device, spec, x, y)
           IN  IF poly_rvals.err # "none" THEN failed(poly_rvals.err)
               ELSE IF rdev_rvals.err # "none" THEN failed(rdev_rvals.err)
               ELSE [err |-> "none", h |-> f.h,
                     poly_rvals |-> poly_rvals.val,
                     rdev_rvals |-> rdev_rvals.val,
                     val |-> RMax(poly_rvals.val, rdev_rvals.val)]

TreePoints == {<<One, Q(1, 4)>>, <<Q(1, 2), Q(3, 2)>>, <<R(3), Q(-1, 2)>>}

NoOut == [op |-> "none"]

\* The objects of heap h that existed in the heap of the current state.
Originals(h) ==
  [cells |-> SubSeq(h.cells, 1, Len(cells)),
   refs |-> SubSeq(h.refs, 1, Len(refs))]

Heap == [cells |-> cells, refs |-> refs]

TreeInit ==
  /\ \E scene \in {EmptyScene, TestScene} :
       /\ cells = scene.cells
       /\ refs = scene.refs
       /\ prevh = scene
  /\ nadds = 0
  /\ out = NoOut
  /\ GridIdle /\ TxIdle /\ BndIdle /\ SdfIdle /\ DerIdle

\* parent.add_ref(child), the reference then given the transform t.
AddRef(parent, child, t) ==
  /\ nadds < MaxAdds
  /\ refs' = Append(refs, Reference(child, t))
  /\ cells' = [cells EXCEPT ![parent].references = Append(@, Len(refs) + 1)]
  /\ prevh' = Heap
  /\ nadds' = nadds + 1
  /\ out' = NoOut
  /\ UNCHANGED notTree

\* cell.add_polygon(points, spec)
AddPolygon(cell, points, spec) ==
  /\ nadds < MaxAdds
  /\ cells' = [cells EXCEPT ![cell].polygons = Append(@, Polygon(spec, points))]
  /\ prevh' = Heap
  /\ nadds' = nadds + 1
  /\ out' = NoOut
  /\ UNCHANGED <<refs>>
  /\ UNCHANGED notTree

\* extract_raster(device); the copies a call allocates are dropped with it.
ExtractCall ==
  /\ out = NoOut
  /\ out' = [op |-> "extract_raster", pre |-> Heap,
             res |-> ExtractRaster(Heap, Root, 1)]
  /\ UNCHANGED <<cells, refs, prevh, nadds>>
  /\ UNCHANGED notTree

FilterCall ==
  LET f == FilterRaster(Heap, Root, 1)
  IN  /\ out = NoOut
      /\ out' = [op |-> "filter_raster", pre |-> Heap, res |-> f]
      /\ cells' = Originals(f.h).cells
      /\ refs' = Originals(f.h).refs
      /\ UNCHANGED <<prevh, nadds>>
      /\ UNCHANGED notTree

RasterCall(spec, pt) ==
  LET r == Raster(Heap, Root, spec, pt[1], pt[2])
  IN  /\ out = NoOut
      /\ out' = [op |-> "raster", pre |-> Heap, spec |-> spec, pt |-> pt,
                 res |-> r]
      /\ cells' = Originals(r.h).cells
      /\ refs' = Originals(r.h).refs
      /\ UNCHANGED <<prevh, nadds>>
      /\ UNCHANGED notTree

\* The caller drops the result of the last call.
Discard ==
  /\ out # NoOut
  /\ out' = NoOut
  /\ UNCHANGED <<cells, refs, prevh, nadds>>
  /\ UNCHANGED notTree

TreeNext ==
  \/ \E parent \in PlainCells, child \in AllCells, t \in TreeTransforms :
       AddRef(parent, child, t)
  \/ \E cell \in AllCells, spec \in LayerSpecs :
       AddPolygon(cell, TestTriangle, spec)
  \/ ExtractCall
  \/ FilterCall
  \/ \E spec \in LayerSpecs, pt \in TreePoints : RasterCall(spec, pt)
  \/ Discard

-----------------------------------------------------------------------------
(* What the hierarchy claims speak of. *)

Range(z) == {z[j] : j \in 1..Len(z)}

\* The cells the references of cell c instantiate.
Children(h, c) == {h.refs[r].parent : r \in Range(h.cells[c].references)}

RECURSIVE ReachFrom(_, _)
ReachFrom(h, S) ==
  LET T == S \cup UNION {Children(h, c) : c \in S}
  IN  IF T = S THEN S ELSE ReachFrom(h, T)

\* Some cell reached from the root instantiates itself, directly or not.
HasCycle(h) ==
  \E c \in ReachFrom(h, {Root}) : c \in ReachFrom(h, Children(h, c))

RECURSIVE Flatten(_)
Flatten(zz) == IF zz = <<>> THEN <<>> ELSE Head(zz) \o Flatten(Tail(zz))

\* Every RasterDevice below device with the transforms of the references on
\* the path to it, the outermost reference first.
RECURSIVE RootToLeafChains(_, _, _)
RootToLeafChains(h, device, path) ==
  IF IsRasterDevice(h, device) THEN <<[dev |-> device, txs |-> path]>>
  ELSE Flatten([j \in 1..Len(h.cells[device].references) |->
         LET ref == h.refs[h.cells[device].references[j]]
         IN  RootToLeafChains(h, ref.parent, Append(path, Reftx(ref)))])

\* C1: the chain extract_raster pairs with each RasterDevice lists the
\* transforms of the references on the path from the root to it with the
\* outermost reference first and the innermost last, the order in which
\* _transformed_raster then applies them to the query point.
C1_RootToLeafOrder ==
  (out.op = "extract_raster" /\ out.res.err = "none") =>
    out.res.val = RootToLeafChains(out.pre, Root, <<>>)

RECURSIVE Instantiate(_, _, _)
\* Where the point pt of the innermost cell lies in the root's frame: the
\* references' own transforms, the innermost (last of path) applied first.
Instantiate(path, i, pt) ==
  IF i = 0 THEN pt
  ELSE Instantiate(path, i - 1, ForwardTransform(path[i], pt[1], pt[2]))

ProbePoint == <<Q(1, 2), Q(1, 4)>>

\* What C1's order is for: pulled back through the chain, the place where a
\* point of a RasterDevice is instantiated is that point again.
C1_PullbackReachesLeafFrame ==
  (out.op = "extract_raster" /\ out.res.err = "none") =>
    LET paths == RootToLeafChains(out.pre, Root, <<>>)
    IN  \A j \in 1..Len(out.res.val) :
          ApplyTransforms(out.res.val[j].txs, 1,
            Instantiate(paths[j].txs, Len(paths[j].txs), ProbePoint))
          = ProbePoint

NoPolygonMatches(h, spec) ==
  \A c \in ReachFrom(h, {Root}) :
    \A p \in Range(h.cells[c].polygons) : p.spec # spec

NoRasterDeviceMatches(h, spec) ==
  \A c \in ReachFrom(h, {Root}) :
    IsRasterDevice(h, c) => h.cells[c].spec # spec

\* C7: on a tree, when no polygon matches the layer spec the polygon
\* contribution of raster() is 0, when no RasterDevice matches it the
\* RasterDevice contribution is 0, no error is raised in either case, and the
\* value is the other contribution alone.
C7_EmptyContributionIsZero ==
  (out.op = "raster" /\ ~HasCycle(out.pre)) =>
    /\ NoPolygonMatches(out.pre, out.spec) =>
         /\ out.res.err = "none"
         /\ out.res.poly_rvals = Zero
         /\ out.res.val = out.res.rdev_rvals
    /\ NoRasterDeviceMatches(out.pre, out.spec) =>
         /\ out.res.err = "none"
         /\ out.res.rdev_rvals = Zero
         /\ out.res.val = out.res.poly_rvals

\* Polygons of the queried layer cover the point and no RasterDevice has it.
C7_Witness ==
  /\ out.op = "raster" /\ ~HasCycle(out.pre)
  /\ NoRasterDeviceMatches(out.pre, out.spec)
  /\ ~NoPolygonMatches(out.pre, out.spec)
  /\ ReachFrom(out.pre, {Root}) # {Root}
  /\ out.res.err = "none"
  /\ out.res.val = One

\* C6: one more polygon or one more instance of a RasterDevice in the tree
\* never lowers the value of raster() at a point, for the value is the larger
\* of the polygon contribution and the RasterDevice contribution.
C6_UnionMonotone ==
  (out.op = "raster" /\ out.res.err = "none" /\ nadds > 0) =>
    LET before == Raster(prevh, Root, out.spec, out.pt[1], out.pt[2])
    IN  /\ before.err = "none"
        /\ RLe(before.val, out.res.val)
        /\ RLe(before.poly_rvals, out.res.poly_rvals)
        /\ RLe(before.rdev_rvals, out.res.rdev_rvals)
        /\ RLe(out.res.poly_rvals, out.res.val)
        /\ RLe(out.res.rdev_rvals, out.res.val)
        /\ out.res.val \in {out.res.poly_rvals, out.res.rdev_rvals}

\* The reference added last instantiates a RasterDevice of the queried
\* layer, a second one, and raised the value at the point.
C6_Witness ==
  /\ out.op = "raster" /\ out.res.err = "none" /\ nadds > 0
  /\ Len(refs) > Len(prevh.refs)
  /\ IsRasterDevice(Heap, refs[Len(refs)].parent)
  /\ cells[refs[Len(refs)].parent].spec = out.spec
  /\ ~NoRasterDeviceMatches(prevh, out.spec)
  /\ LET before == Raster(prevh, Root, out.spec, out.pt[1], out.pt[2])
     IN  before.err = "none" /\ RLt(before.val, out.res.val)

\* C9 as stated: a cycle in the hierarchy ends the traversals extract_raster
\* and filter_raster in a MalformedHierarchy error.
C9_CycleIsMalformedHierarchy ==
  (out.op \in {"extract_raster", "filter_raster"} /\ HasCycle(out.pre)) =>
    out.res.err = "MalformedHierarchy"

\* C9 as amended: the traversals detect nothing.  On an acyclic hierarchy
\* both return; on a cycle of references among the cells reached from the
\* root both recurse until the recursion limit ends them in a RecursionError.
C9_TraversalsEndOnlyOnTrees ==
  out.op \in {"extract_raster", "filter_raster"} =>
    /\ ~HasCycle(out.pre) => out.res.err = "none"
    /\ HasCycle(out.pre) => out.res.err = "RecursionError"

\* The root instantiates a cell that instantiates the root.
C9_Witness ==
  /\ out.op = "filter_raster"
  /\ 2 \in Children(out.pre, Root) /\ Root \in Children(out.pre, 2)
  /\ out.res.err = "RecursionError"

RECURSIVE Shape(_, _)
\* The tree below cell c: its polygons and, for each reference in order, the
\* transform and the tree of the cell instantiated.
Shape(h, c) ==
  [polygons |-> h.cells[c].polygons,
   references |->
     [j \in 1..Len(h.cells[c].references) |->
        LET ref == h.refs[h.cells[c].references[j]]
        IN  [tx |-> Reftx(ref), cell |-> Shape(h, ref.parent)]]]

RECURSIVE FilteredShape(_, _)
\* The tree below cell c without the references to RasterDevices.
FilteredShape(h, c) ==
  LET kept == SelectSeq(h.cells[c].references,
                        LAMBDA r : ~IsRasterDevice(h, h.refs[r].parent))
  IN  [polygons |-> h.cells[c].polygons,
       references |->
         [j \in 1..Len(kept) |->
            [tx |-> Reftx(h.refs[kept[j]]),
             cell |-> FilteredShape(h, h.refs[kept[j]].parent)]]]

\* C10: filter_raster returns a new tree, the input tree without its
\* references to RasterDevices at every depth and with every other reference
\* and polygon kept, and leaves the input's cells and references as they
\* were; so does raster(), which calls it.
C10_FilterCopies ==
  /\ (out.op \in {"filter_raster", "raster"} /\ out.res.err = "none") =>
       /\ Heap = out.pre
       /\ Originals(out.res.h) = out.pre
  /\ (out.op = "filter_raster" /\ out.res.err = "none") =>
       /\ ReachFrom(out.res.h, {out.res.d}) \cap (1..Len(out.pre.cells)) = {}
       /\ \A c \in ReachFrom(out.res.h, {out.res.d}) :
            ~IsRasterDevice(out.res.h, c)
       /\ Shape(out.res.h, out.res.d) = FilteredShape(out.pre, Root)

\* A RasterDevice two references below the root, next to a polygon.
C10_Witness ==
  /\ out.op = "filter_raster" /\ out.res.err = "none"
  /\ \E c \in Children(out.pre, Root) :
       /\ c # Root
       /\ out.pre.cells[c].polygons # <<>>
       /\ \E g \in Children(out.pre, c) : IsRasterDevice(out.pre, g)
  /\ Shape(out.res.h, out.res.d) # Shape(out.pre, Root)

-----------------------------------------------------------------------------
(* derasterization.py: deraster, and the gradient jax carries through it.  *)
(*                                                                         *)
(* A traced value is [v, g]: the value and its derivative with respect to  *)
(* the raster function's parameter offset.                                 *)

DMaxRes == 3

Dual(v, g) == [v |-> v, g |-> g]
Const(v) == Dual(v, Zero)

\* d/d offset of scale * (a*x + b*y + offset)
RasterFnGrad(fn, x, y) == fn.scale

\* The derivative of bounded_raster: where() passes the derivative of the
\* branch it selects; clip() passes it strictly inside [0, 1], blocks it
\* outside and halves it at an end (the rule of jax's max and min at a tie).
BoundedRasterGrad(rasterfn, x, y, box) ==
  LET in_bbox == /\ RLe(box[1][1], x) /\ RLe(x, box[2][1])
                 /\ RLe(box[1][2], y) /\ RLe(y, box[2][2])
      raw == RasterFn(rasterfn, x, y)
      g == RasterFnGrad(rasterfn, x, y)
  IN  IF ~in_bbox THEN Zero
      ELSE IF RLt(raw, Zero) \/ RLt(One, raw) THEN Zero
      ELSE IF raw = Zero \/ raw = One THEN RMul(Q(1, 2), g)
      ELSE g

BoundedRasterTraced(rasterfn, x, y, box) ==
  Dual(BoundedRaster(rasterfn, x, y, box),
       BoundedRasterGrad(rasterfn, x, y, box))

\* A bug the cut must catch: the samples passed on as they are.
StopGradientMissing(z) == z

\* jax.lax.stop_gradient on the array of samples.
StopGradient(z) ==
  [i \in DOMAIN z |-> [j \in DOMAIN z[i] |-> Const(z[i][j].v)]]

\* _interp(x, xref) = onp.interp(x, onp.arange(len(xref)), xref) for one
\* traced index x: linear between the two grid points around it.
Interp(x, xref) ==
  LET k == RFloor(x.v)
      f == RSub(x.v, R(k))
  IN  IF k + 2 > Len(xref) THEN Const(xref[Len(xref)])
      ELSE Dual(RAdd(xref[k + 1], RMul(f, RSub(xref[k + 2], xref[k + 1]))),
                RMul(x.g, RSub(xref[k + 2], xref[k + 1])))

\* Where the level is crossed between the samples p (at index 0) and q (at
\* index 1), as marching squares interpolates it: (level - p) / (q - p).
Crossing(p, q, level) ==
  LET den == RSub(q.v, p.v)
      num == RSub(level, p.v)
  IN  Dual(RDiv(num, den),
           RDiv(RSub(RNeg(RMul(p.g, den)), RMul(num, RSub(q.g, p.g))),
                RMul(den, den)))

Crossed(p, q, level) == RLt(level, p.v) # RLt(level, q.v)

DAddConst(c, d) == Dual(RAdd(c, d.v), d.g)

\* _contour(x, y, z, threshold): the vertices find_contours places on the
\* grid edges where z crosses the threshold, in index space, each mapped to
\* coordinates by _interp.  The order of the vertices along their curves is
\* not modelled.
Contour(x, y, z, threshold) ==
  { <<Interp(DAddConst(R(e[1] - 1),
                       Crossing(z[e[1]][e[2]], z[e[1] + 1][e[2]], threshold)),
             x),
      Interp(Const(R(e[2] - 1)), y)>> :
      e \in {e \in (1..(Len(x) - 1)) \X (1..Len(y)) :
               Crossed(z[e[1]][e[2]], z[e[1] + 1][e[2]], threshold)} }
  \cup
  { <<Interp(Const(R(e[1] - 1)), x),
      Interp(DAddConst(R(e[2] - 1),
                       Crossing(z[e[1]][e[2]], z[e[1]][e[2] + 1], threshold)),
             y)>> :
      e \in {e \in (1..Len(x)) \X (1..(Len(y) - 1)) :
               Crossed(z[e[1]][e[2]], z[e[1]][e[2] + 1], threshold)} }

\* A traced coordinate held to the interval [lo, hi].
ClampTraced(d, lo, hi) ==
  IF RLt(d.v, lo) THEN Const(lo)
  ELSE IF RLt(hi, d.v) THEN Const(hi) ELSE d

\* The XOR of the contours and the AND with the bounding box rectangle, as
\* far as the vertices go: none is left outside the box.
Assemble(contours, box) ==
  { <<ClampTraced(c[1], box[1][1], box[2][1]),
      ClampTraced(c[2], box[1][2], box[2][2])>> : c \in contours }

Threshold == Q(1, 2)

\* np.max(np.stack([poly_rvals, rdev_rvals]), axis=0) on traced values.
TracedMax(p, q) ==
  IF RLt(q.v, p.v) THEN p
  ELSE IF RLt(p.v, q.v) THEN q
  ELSE Dual(p.v, RMul(Q(1, 2), RAdd(p.g, q.g)))

\* raster() at one point of a device with one RasterDevice and a polygon
\* contribution poly.
RasterTraced(rasterfn, box, poly, x, y) ==
  TracedMax(Const(poly), BoundedRasterTraced(rasterfn, x, y, box))

DerInit ==
  /\ dfn \in RasterFns
  /\ dbox \in BBoxes
  /\ \E k \in 1..DMaxRes : dres = Q(k, 2)
  /\ dxgrid = <<>> /\ dygrid = <<>> /\ drvals = <<>>
  /\ dcontours = {} /\ dpolys = {}
  /\ dout = <<>>
  /\ dpc = "start"
  /\ GridIdle /\ TxIdle /\ BndIdle /\ SdfIdle /\ TreeIdle

\* deraster, lines 24 to 27: the grid and the samples of the field on it.
DerSample ==
  /\ dpc = "start"
  /\ dxgrid' = Gridpoints(dbox[1][1], dbox[2][1], dres)
  /\ dygrid' = Gridpoints(dbox[1][2], dbox[2][2], dres)
  /\ drvals' = [i \in 1..Len(dxgrid') |-> [j \in 1..Len(dygrid') |->
                  BoundedRasterTraced(dfn, dxgrid'[i], dygrid'[j], dbox)]]
  /\ dpc' = "sampled"
  /\ UNCHANGED <<dfn, dbox, dres, dcontours, dpolys, dout>>
  /\ UNCHANGED notDer

\* line 31
DerStopGradient ==
  /\ dpc = "sampled"
  /\ drvals' = StopGradient(drvals)
  /\ dpc' = "stopped"
  /\ UNCHANGED <<dfn, dbox, dres, dxgrid, dygrid, dcontours, dpolys, dout>>
  /\ UNCHANGED notDer

\* line 36
DerContour ==
  /\ dpc = "stopped"
  /\ dcontours' = Contour(dxgrid, dygrid, drvals, Threshold)
  /\ dpc' = "contoured"
  /\ UNCHANGED <<dfn, dbox, dres, dxgrid, dygrid, drvals, dpolys, dout>>
  /\ UNCHANGED notDer

\* lines 37 to 51
DerReturn ==
  /\ dpc = "contoured"
  /\ dpolys' = Assemble(dcontours, dbox)
  /\ dpc' = "returned"
  /\ UNCHANGED <<dfn, dbox, dres, dxgrid, dygrid, drvals, dcontours, dout>>
  /\ UNCHANGED notDer

\* raster() instead, at the point <<x, y>>.
DerRaster(poly, x, y) ==
  /\ dpc = "start"
  /\ dout' = [poly |-> poly, x |-> x, y |-> y,
              val |-> RasterTraced(dfn, dbox, poly, x, y)]
  /\ dpc' = "rastered"
  /\ UNCHANGED <<dfn, dbox, dres, dxgrid, dygrid, drvals, dcontours, dpolys>>
  /\ UNCHANGED notDer

DerNext ==
  \/ DerSample
  \/ DerStopGradient
  \/ DerContour
  \/ DerReturn
  \/ \E poly \in {Zero, One}, x \in {Zero, Q(1, 2), R(3)}, y \in {Zero, Q(1, 4)} :
       DerRaster(poly, x, y)

Samples == {drvals[i][j] : i \in 1..Len(dxgrid), j \in 1..Len(dygrid)}

\* C8: in deraster every sample of the field that reaches contour tracing
\* has passed stop_gradient, so the samples, the contours and the returned
\* polygons carry no derivative with respect to the field's parameter, while
\* raster() passes the derivative of the RasterDevice's field on.
C8_GradientCut ==
  /\ dpc \in {"stopped", "contoured", "returned"} =>
       \A s \in Samples : s.g = Zero
  /\ dpc \in {"contoured", "returned"} =>
       \A c \in dcontours : c[1].g = Zero /\ c[2].g = Zero
  /\ dpc = "returned" =>
       \A c \in dpolys : c[1].g = Zero /\ c[2].g = Zero
  /\ dpc = "rastered" =>
       LET raw == RasterFn(dfn, dout.x, dout.y)
       IN  ( /\ RLe(dbox[1][1], dout.x) /\ RLe(dout.x, dbox[2][1])
             /\ RLe(dbox[1][2], dout.y) /\ RLe(dout.y, dbox[2][2])
             /\ RLt(Zero, raw) /\ RLt(raw, One)
             /\ dout.poly = Zero )
           => dout.val.g = dfn.scale /\ dout.val.g # Zero

\* Polygons are returned from a field whose samples did depend on offset.
C8_Witness ==
  /\ dpc = "returned"
  /\ dpolys # {}
  /\ \E i \in 1..Len(dxgrid), j \in 1..Len(dygrid) :
       BoundedRasterGrad(dfn, dxgrid[i], dygrid[j], dbox) # Zero
  /\ \E c \in dcontours :
       c[1].v \notin Range(dxgrid) \/ c[2].v \notin Range(dygrid)

-----------------------------------------------------------------------------
(* The specifications. *)

GridNext == GridCall
SpecGrid == GridInit /\ [][GridNext]_vars

SpecTransform == TxInit /\ [][TxNext]_vars
SpecBounded == BndInit /\ [][BndNext]_vars
SpecSdf == SdfInit /\ [][SdfNext]_vars
Spec == TreeInit /\ [][TreeNext]_vars
SpecDeraster == DerInit /\ [][DerNext]_vars

=============================================================================
